---- MODULE Spec2Model ----
(***************************************************************************)
(* A model of mercurial-hug (src/hug/hug.py): the Hug repository handle,   *)
(* its operations (__init__, add, commit, username, summary, update) and   *)
(* the parts of the Mercurial engine and of the filesystem they call.      *)
(*                                                                         *)
(* Strings that the code inspects character by character (pathnames) are   *)
(* sequences of one-character strings.  A Python value that may be None is *)
(* a sequence of length at most one: << >> is None, <<v>> is the value v.  *)
(***************************************************************************)
EXTENDS Integers, Sequences, FiniteSets, TLC

VARIABLES
    exists,     \* what repo_dir is on disk: "missing", "file" or "dir"
    hg,         \* whether repo_dir holds repository metadata (.hg)
    st,         \* working copy: the status of each file of repo_dir
    commits,    \* the repository's history, oldest first
    parent,     \* the working copy's parent revision (-1: the null revision)
    handle,     \* whether a Hug instance has been constructed (self._repo)
    username,   \* self._username
    uiname,     \* what self._ui.username() yields (<< >>: it raises Abort)
    last        \* the most recent call: its operation, arguments and outcome

vars == <<exists, hg, st, commits, parent, handle, username, uiname, last>>

-----------------------------------------------------------------------------
(* Bounds of the model *)

\* the longest list of pathnames handed to add()
MaxBatch == 2

\* the most commits a history may hold
MaxCommits == 1

-----------------------------------------------------------------------------
(* Strings *)

None == << >>

Some(v) == <<v>>

\* str.startswith
StartsWith(s, prefix) ==
    /\ Len(s) >= Len(prefix)
    /\ SubSeq(s, 1, Len(prefix)) = prefix

\* s[n:]
DropFirst(s, n) == SubSeq(s, n + 1, Len(s))

\* str.replace(old, ''): every non-overlapping occurrence of old, from the left
RECURSIVE RemoveAll(_, _)
RemoveAll(s, old) ==
    IF s = << >> THEN << >>
    ELSE IF StartsWith(s, old) THEN RemoveAll(DropFirst(s, Len(old)), old)
    ELSE <<Head(s)>> \o RemoveAll(Tail(s), old)

\* str.split('/')
RECURSIVE SplitSlash(_, _)
SplitSlash(s, cur) ==
    IF s = << >> THEN <<cur>>
    ELSE IF Head(s) = "/" THEN <<cur>> \o SplitSlash(Tail(s), << >>)
    ELSE SplitSlash(Tail(s), Append(cur, Head(s)))

\* '/'.join(comps)
RECURSIVE JoinSlash(_)
JoinSlash(comps) ==
    IF comps = << >> THEN << >>
    ELSE IF Len(comps) = 1 THEN comps[1]
    ELSE comps[1] \o <<"/">> \o JoinSlash(Tail(comps))

\* the loop of posixpath.normpath over the components of an absolute path
RECURSIVE NormComps(_, _)
NormComps(comps, new) ==
    IF comps = << >> THEN new
    ELSE LET comp == Head(comps) IN
         IF comp = << >> \/ comp = <<".">> THEN NormComps(Tail(comps), new)
         ELSE IF comp # <<".", ".">> \/ (new # << >> /\ new[Len(new)] = <<".", ".">>)
              THEN NormComps(Tail(comps), Append(new, comp))
         ELSE IF new # << >>
              THEN NormComps(Tail(comps), SubSeq(new, 1, Len(new) - 1))
         ELSE NormComps(Tail(comps), new)

\* os.path.isabs
IsAbs(p) == p # << >> /\ p[1] = "/"

\* os.path.normpath of an absolute path with one leading slash
NormPath(p) == <<"/">> \o JoinSlash(NormComps(SplitSlash(p, << >>), << >>))

\* os.path.join(a, b) for a relative b and an a that does not end in a slash
PathJoin(a, b) == a \o <<"/">> \o b

-----------------------------------------------------------------------------
(* The repository directory, its files, and the pathnames given to add() *)

\* self._repo_dir, absolute
RepoDir == <<"/", "r">>

FileA == <<"a">>
FileB == <<"d", "/", "b">>

\* the files of the working copy, named relative to repo_dir as status() does
Files == {FileA, FileB}

\* a file's status is "absent", "unknown" (untracked), "added", "clean",
\* "modified", "removed" or "deleted" (tracked and missing)

Pathnames ==
    { FileA,                                           \* a
      FileB,                                           \* d/b
      <<"/", "r", "/", "d", "/", "b">>,                \* /r/d/b
      <<"/", "o">>,                                    \* /o
      <<".", ".", "/", "o">>,                          \* ../o
      <<"/", "r", "x", "/", "a">>,                     \* /rx/a
      <<"/", "r", "/", ".", ".", "/", "o">>,           \* /r/../o
      <<"/", "r", "/", "d", "/", ".", ".", "/", "a">> } \* /r/d/../a

\* Hug.add, lines 132-137: make sure the pathnames-to-add are absolute
AbsPathname(each_path) ==
    IF IsAbs(each_path) THEN each_path
    ELSE NormPath(PathJoin(RepoDir, each_path))

\* AbsPathname of each pathname of the model, computed once
AbsPathnameOf == [p \in Pathnames |-> AbsPathname(p)]

AbsPathnameSet == {AbsPathnameOf[p] : p \in Pathnames}

RECURSIVE SeqsUpTo(_, _)
SeqsUpTo(S, n) ==
    IF n = 0 THEN {<< >>}
    ELSE LET shorter == SeqsUpTo(S, n - 1) IN
         shorter \cup {Append(q, x) : q \in {t \in shorter : Len(t) = n - 1}, x \in S}

Batches == SeqsUpTo(Pathnames, MaxBatch)

-----------------------------------------------------------------------------
(* The engine *)

\* self._repo.status(unknown=True).unknown
Unknowns(s) == {f \in Files : s[f] = "unknown"}

\* pathutil.canonpath as commands.add applies it: the pathname relative to the
\* root, or None when the pathname is not under the root
CanonPath(path) ==
    LET name == NormPath(path) IN
    IF name = RepoDir THEN Some(<< >>)
    ELSE IF StartsWith(name, RepoDir \o <<"/">>)
         THEN Some(DropFirst(name, Len(RepoDir) + 1))
    ELSE None

\* CanonPath of each absolute pathname of the model, computed once
CanonPathOf == [q \in AbsPathnameSet |-> CanonPath(q)]

\* commands.add(ui, repo, path): aborts for a path not under the root; stages
\* the untracked files the path names (a file, or all those below a directory)
EngineAdd(s, path) ==
    LET canon == CanonPathOf[path] IN
    IF canon = None THEN [st |-> s, res |-> "Abort"]
    ELSE LET rel == canon[1]
             matched == {f \in Files :
                            \/ rel = << >>
                            \/ f = rel
                            \/ StartsWith(f, rel \o <<"/">>)}
         IN  [st |-> [f \in Files |->
                        IF f \in matched /\ s[f] = "unknown" THEN "added" ELSE s[f]],
              res |-> "ok"]

-----------------------------------------------------------------------------
(* Hug.add *)

\* lines 132-137
AbsPathnames(pathnames) == [i \in 1..Len(pathnames) |-> AbsPathnameOf[pathnames[i]]]

\* line 140
InRepoDir(each_path) == StartsWith(each_path, RepoDir)

\* line 144
RelativeToRepo(each_path) == DropFirst(RemoveAll(each_path, RepoDir), 1)

\* InRepoDir and RelativeToRepo of each absolute pathname, computed once
InRepoDirOf == [q \in AbsPathnameSet |-> InRepoDir(q)]

RelativeToRepoOf == [q \in AbsPathnameSet |-> RelativeToRepo(q)]

\* a faulty variant: a pathname that is not untracked is an error
StageOneStrict(each_path, unknowns, s) ==
    IF RelativeToRepoOf[each_path] \in unknowns
    THEN EngineAdd(s, each_path)
    ELSE [st |-> s, res |-> "Abort"]

\* lines 144-147: only call add() for untracked files
StageOne(each_path, unknowns, s) ==
    IF RelativeToRepoOf[each_path] \in unknowns
    THEN EngineAdd(s, each_path)
    ELSE [st |-> s, res |-> "ok"]

\* lines 143-147: the staging loop, which an exception of the engine leaves
RECURSIVE StageAll(_, _, _)
StageAll(abs_pathnames, unknowns, s) ==
    IF abs_pathnames = << >> THEN [st |-> s, res |-> "ok", named |-> None]
    ELSE LET r == StageOne(Head(abs_pathnames), unknowns, s) IN
         IF r.res # "ok" THEN [st |-> r.st, res |-> r.res, named |-> None]
         ELSE StageAll(Tail(abs_pathnames), unknowns, r.st)

\* lines 139-141: the first pathname that is not in the repository directory
RECURSIVE FirstOutside(_)
FirstOutside(abs_pathnames) ==
    IF abs_pathnames = << >> THEN None
    ELSE IF ~InRepoDirOf[Head(abs_pathnames)] THEN Some(Head(abs_pathnames))
    ELSE FirstOutside(Tail(abs_pathnames))

\* a faulty variant: one loop that checks a pathname and stages it before it checks
\* the next
RECURSIVE AddInterleaved(_, _, _)
AddInterleaved(abs_pathnames, unknowns, s) ==
    IF abs_pathnames = << >> THEN [st |-> s, res |-> "ok", named |-> None]
    ELSE IF ~InRepoDirOf[Head(abs_pathnames)]
         THEN [st |-> s, res |-> "PathOutsideRepository",
               named |-> Some(Head(abs_pathnames))]
    ELSE LET r == StageOne(Head(abs_pathnames), unknowns, s) IN
         IF r.res # "ok" THEN [st |-> r.st, res |-> r.res, named |-> None]
         ELSE AddInterleaved(Tail(abs_pathnames), unknowns, r.st)

\* lines 139-147: every pathname is checked before any is staged
CheckThenStage(abs_pathnames, unknowns, s) ==
    LET outside == FirstOutside(abs_pathnames) IN
    IF outside # None
    THEN [st |-> s, res |-> "PathOutsideRepository", named |-> outside]
    ELSE StageAll(abs_pathnames, unknowns, s)

\* lines 126-147: the outcome of add(pathnames) on a working copy s
AddOutcome(pathnames, s) ==
    CheckThenStage(AbsPathnames(pathnames), Unknowns(s), s)

Add(pathnames) ==
    /\ handle
    /\ LET r == AddOutcome(pathnames, st) IN
       /\ st' = r.st
       /\ last' = [op |-> "add", arg |-> pathnames, res |-> r.res,
                   named |-> r.named,
                   again |-> last.op = "add" /\ last.arg = pathnames]
    /\ UNCHANGED <<exists, hg, commits, parent, handle, username, uiname>>

-----------------------------------------------------------------------------
(* add() on its own: a handle over an existing repository whose files are  *)
(* untracked, staged or committed, and calls of add() with every batch     *)

NoCall == [op |-> "none", arg |-> None, res |-> "ok", named |-> None, again |-> FALSE]

InitAdd ==
    /\ exists = "dir"
    /\ hg = TRUE
    /\ st \in [Files -> {"unknown", "added", "clean"}]
    /\ commits = << >>
    /\ parent = -1
    /\ handle = TRUE
    /\ username = None
    /\ uiname = None
    /\ last = NoCall

NextAdd == \E pathnames \in Batches : Add(pathnames)

SpecAdd == InitAdd /\ [][NextAdd]_vars

-----------------------------------------------------------------------------
(* Hug.__init__ *)

\* os.listdir(repo_dir) of a directory that is no repository: the names of the
\* files present (a file in a subdirectory shows as the subdirectory)
ListDir(s) == {f \in Files : s[f] # "absent"}

\* a faulty variant: one entry in the directory still counts as empty
UnsafeInitOffByOne(safe, s) == safe /\ Cardinality(ListDir(s)) > 1

\* line 92
UnsafeInit(safe, s) == safe /\ Cardinality(ListDir(s)) > 0

\* a faulty variant: only os.path.exists is asked
IsDirectoryExistsOnly(e) == e # "missing"

\* line 86
IsDirectory(e) == e = "dir"

\* lines 83-95: the outcome of Hug(repo_dir, safe) and whether the repository
\* metadata is there afterwards.  hg.repository raises RepoError where there is
\* no metadata, and commands.init creates it.
ConstructOutcome(safe, e, h, s) ==
    IF ~IsDirectory(e) THEN [res |-> "InvalidRepository", hg |-> h]
    ELSE IF h THEN [res |-> "ok", hg |-> h]
    ELSE IF UnsafeInit(safe, s) THEN [res |-> "UnsafeInit", hg |-> h]
    ELSE [res |-> "ok", hg |-> TRUE]

Construct(safe) ==
    /\ ~handle
    /\ LET r == ConstructOutcome(safe, exists, hg, st) IN
       /\ hg' = r.hg
       /\ handle' = (r.res = "ok")
       /\ last' = [op |-> "init", arg |-> safe, res |-> r.res,
                   named |-> None, again |-> FALSE]
    /\ username' = None
    /\ UNCHANGED <<exists, st, commits, parent, uiname>>

-----------------------------------------------------------------------------
(* Hug.username *)

DefaultCommitMessage == "(empty commit message)"

DefaultUsername == "(unknown user)"

UserNames == {"", "HUSH"}

\* lines 174-182: _get_username; a username that is None or empty is not truthy
GetUsername(u, ui) ==
    IF u # None /\ u[1] # "" THEN u[1]
    ELSE IF ui # None THEN ui[1]
    ELSE DefaultUsername

\* lines 184-186: _set_username
SetUsername(name) ==
    /\ handle
    /\ username' = Some(name)
    /\ last' = [op |-> "set_username", arg |-> name, res |-> "ok",
                named |-> None, again |-> FALSE]
    /\ UNCHANGED <<exists, hg, st, commits, parent, handle, uiname>>

\* lines 188-190: _del_username
DelUsername ==
    /\ handle
    /\ username' = None
    /\ last' = [op |-> "del_username", arg |-> None, res |-> "ok",
                named |-> None, again |-> FALSE]
    /\ UNCHANGED <<exists, hg, st, commits, parent, handle, uiname>>

-----------------------------------------------------------------------------
(* Hug.commit *)

Messages == {None, Some(""), Some("a message")}

Dates == {None, Some("Tue Apr 19 15:00:00 2016 -0500")}

WithStatus(s, status) == {f \in Files : s[f] = status}

\* the files of the changeset that a commit of working copy s makes
ManifestOf(s) == {f \in Files : s[f] \in {"added", "clean", "modified", "deleted"}}

\* commands.commit(ui, repo, message, user, date): nothing is committed, and
\* nothing raised, when no file is added, modified or removed (a file that is
\* only missing is not committed); an empty message aborts; otherwise the new
\* changeset becomes the working copy's parent and its files are clean
EngineCommit(s, cs, par, message, user, date) ==
    IF WithStatus(s, "added") \cup WithStatus(s, "modified") \cup WithStatus(s, "removed") = {}
    THEN [res |-> "ok", st |-> s, commits |-> cs, parent |-> par]
    ELSE IF message = ""
    THEN [res |-> "Abort", st |-> s, commits |-> cs, parent |-> par]
    ELSE [res |-> "ok",
          st |-> [f \in Files |->
                    IF s[f] \in {"added", "modified"} THEN "clean"
                    ELSE IF s[f] = "removed" THEN "absent"
                    ELSE s[f]],
          commits |-> Append(cs, [message |-> message, user |-> user, date |-> date,
                                  parent |-> par, files |-> ManifestOf(s)]),
          parent |-> Len(cs)]

\* a faulty variant: untracked files count as changes too
NothingToCommitCountingUnknown(s) ==
    0 = Cardinality(WithStatus(s, "added")) + Cardinality(WithStatus(s, "deleted"))
        + Cardinality(WithStatus(s, "modified")) + Cardinality(WithStatus(s, "removed"))
        + Cardinality(WithStatus(s, "unknown"))

\* lines 165-166
NothingToCommit(s) ==
    0 = Cardinality(WithStatus(s, "added")) + Cardinality(WithStatus(s, "deleted"))
        + Cardinality(WithStatus(s, "modified")) + Cardinality(WithStatus(s, "removed"))

\* a faulty variant: a message that is not truthy is replaced
CommitMessageIfFalsy(message) ==
    IF message = None \/ message[1] = "" THEN DefaultCommitMessage ELSE message[1]

\* lines 169-170
CommitMessage(message) ==
    IF message = None THEN DefaultCommitMessage ELSE message[1]

\* lines 165-172
CommitOutcome(message, date, s, cs, par, u, ui) ==
    IF NothingToCommit(s)
    THEN [res |-> "NothingToCommit", st |-> s, commits |-> cs, parent |-> par]
    ELSE EngineCommit(s, cs, par, CommitMessage(message), GetUsername(u, ui), date)

Commit(message, date) ==
    /\ handle
    /\ LET r == CommitOutcome(message, date, st, commits, parent, username, uiname) IN
       /\ Len(r.commits) <= MaxCommits
       /\ st' = r.st
       /\ commits' = r.commits
       /\ parent' = r.parent
       /\ last' = [op |-> "commit", arg |-> [message |-> message, date |-> date],
                   res |-> r.res, named |-> None, again |-> FALSE]
    /\ UNCHANGED <<exists, hg, handle, username, uiname>>

-----------------------------------------------------------------------------
(* Hug.update *)

\* the revision identifiers given to update(): None, or a revision number
Revs == {None} \cup {Some(n) : n \in 0..MaxCommits}

\* a revision identifier resolves when it numbers a changeset of the history
Resolves(rev, cs) == rev = None \/ rev[1] \in 0..(Len(cs) - 1)

\* the revision update() goes to: the one named, or the tip
Target(rev, cs) == IF rev = None THEN Len(cs) - 1 ELSE rev[1]

\* the files of a revision (-1, the null revision, has none)
Manifest(cs, r) == IF r = -1 THEN {} ELSE cs[r + 1].files

\* uncommitted changes, as commands.update checks for them
Dirty(s) == \E f \in Files : s[f] \in {"added", "modified", "removed", "deleted"}

\* a file's status after the working copy is checked out at a revision
CheckedOut(status, inTarget) ==
    IF status \in {"unknown", "added"} THEN "unknown"
    ELSE IF inTarget THEN "clean"
    ELSE "absent"

\* the checkouts the model follows: no local change is merged into the target,
\* and no untracked file stands where the target has a file
PlainCheckout(s, cs, par, rev, clean) ==
    /\ Dirty(s) /\ ~clean => Target(rev, cs) = par
    /\ Target(rev, cs) # par =>
         \A f \in Files : s[f] \in {"unknown", "added"} => f \notin Manifest(cs, Target(rev, cs))

\* commands.update(ui, repo, rev, clean, check) of Mercurial 3.7, the version
\* setup.py requires: the revision is looked up first, and one that does not
\* resolve raises RepoLookupError; then both flags together abort; check aborts
\* on uncommitted changes; otherwise the working copy moves to the target
EngineUpdate(s, cs, par, rev, clean, check) ==
    IF ~Resolves(rev, cs) THEN [res |-> "RepoLookupError", st |-> s, parent |-> par]
    ELSE IF check /\ clean THEN [res |-> "Abort", st |-> s, parent |-> par]
    ELSE IF check /\ Dirty(s) THEN [res |-> "Abort", st |-> s, parent |-> par]
    ELSE IF Target(rev, cs) = par /\ ~clean THEN [res |-> "ok", st |-> s, parent |-> par]
    ELSE [res |-> "ok",
          st |-> [f \in Files |-> CheckedOut(s[f], f \in Manifest(cs, Target(rev, cs)))],
          parent |-> Target(rev, cs)]

\* a faulty variant: the engine's lookup error is not translated
RaisedByUpdateUncaught(res) == res

\* lines 272-275: RepoLookupError becomes the RuntimeError of _UNKNOWN_REVISION
RaisedByUpdate(res) == IF res = "RepoLookupError" THEN "UnknownRevision" ELSE res

Update(rev, clean, check) ==
    /\ handle
    /\ Resolves(rev, commits) => PlainCheckout(st, commits, parent, rev, clean)
    /\ LET r == EngineUpdate(st, commits, parent, rev, clean, check) IN
       /\ st' = r.st
       /\ parent' = r.parent
       /\ last' = [op |-> "update", arg |-> [rev |-> rev, clean |-> clean, check |-> check],
                   res |-> RaisedByUpdate(r.res), named |-> None, again |-> FALSE]
    /\ UNCHANGED <<exists, hg, commits, handle, username, uiname>>

-----------------------------------------------------------------------------
(* The working copy changes under the handle: files are written, edited,   *)
(* removed with the engine, or deleted                                     *)

Touched(op, f) == [op |-> op, arg |-> f, res |-> "ok", named |-> None, again |-> FALSE]

WriteFile(f) ==
    /\ exists = "dir"
    /\ st[f] = "absent"
    /\ st' = [st EXCEPT ![f] = "unknown"]
    /\ last' = Touched("write", f)
    /\ UNCHANGED <<exists, hg, commits, parent, handle, username, uiname>>

EditFile(f) ==
    /\ st[f] = "clean"
    /\ st' = [st EXCEPT ![f] = "modified"]
    /\ last' = Touched("edit", f)
    /\ UNCHANGED <<exists, hg, commits, parent, handle, username, uiname>>

RemoveFile(f) ==
    /\ st[f] = "clean"
    /\ st' = [st EXCEPT ![f] = "removed"]
    /\ last' = Touched("remove", f)
    /\ UNCHANGED <<exists, hg, commits, parent, handle, username, uiname>>

DeleteFile(f) ==
    /\ st[f] = "clean"
    /\ st' = [st EXCEPT ![f] = "deleted"]
    /\ last' = Touched("delete", f)
    /\ UNCHANGED <<exists, hg, commits, parent, handle, username, uiname>>

-----------------------------------------------------------------------------
(* The handle's life: construction over what repo_dir may be, then any      *)
(* sequence of its operations and of changes to the working copy            *)

NoFiles == [f \in Files |-> "absent"]

\* the changeset of a repository made before the handle, with FileA committed
Earlier == [message |-> "whatever", user |-> "A-Lin", date |-> None,
            parent |-> -1, files |-> {FileA}]

Init ==
    /\ \/ exists = "missing" /\ hg = FALSE /\ st = NoFiles /\ commits = << >> /\ parent = -1
       \/ exists = "file" /\ hg = FALSE /\ st = NoFiles /\ commits = << >> /\ parent = -1
       \/ exists = "dir" /\ hg = FALSE /\ st = NoFiles /\ commits = << >> /\ parent = -1
       \/ /\ exists = "dir" /\ hg = FALSE /\ commits = << >> /\ parent = -1
          /\ st = [NoFiles EXCEPT ![FileA] = "unknown"]
       \/ /\ exists = "dir" /\ hg = TRUE /\ commits = <<Earlier>> /\ parent = 0
          /\ st = [NoFiles EXCEPT ![FileA] = "clean"]
    /\ handle = FALSE
    /\ username = None
    /\ uiname \in {None, Some("A-Lin")}
    /\ last = NoCall

\* the files the changes to the working copy touch, and add()'s batches
WorkFiles == {FileA}

Next ==
    \/ \E safe \in BOOLEAN : Construct(safe)
    \/ \E f \in WorkFiles : Add(<<f>>)
    \/ \E message \in Messages, date \in Dates : Commit(message, date)
    \/ \E name \in UserNames : SetUsername(name)
    \/ DelUsername
    \/ \E rev \in Revs, clean \in BOOLEAN, check \in BOOLEAN : Update(rev, clean, check)
    \/ \E f \in WorkFiles : WriteFile(f)
    \/ \E f \in WorkFiles : EditFile(f)
    \/ \E f \in WorkFiles : RemoveFile(f)
    \/ \E f \in WorkFiles : DeleteFile(f)

Spec == Init /\ [][Next]_vars

-----------------------------------------------------------------------------
(* Hug.summary *)

\* the most lines the engine's summary output holds
MaxLines == 3

\* the width of the label "parent: " that line 241 cuts off
ParentLabelWidth == 8

Newline == <<"\n">>

\* str.split(sep): the pieces between the occurrences of sep, from the left
RECURSIVE SplitOn(_, _, _)
SplitOn(s, sep, cur) ==
    IF s = << >> THEN <<cur>>
    ELSE IF StartsWith(s, sep) THEN <<cur>> \o SplitOn(DropFirst(s, Len(sep)), sep, << >>)
    ELSE SplitOn(Tail(s), sep, Append(cur, Head(s)))

\* sep.join(parts)
RECURSIVE JoinWith(_, _)
JoinWith(parts, sep) ==
    IF parts = << >> THEN << >>
    ELSE IF Len(parts) = 1 THEN parts[1]
    ELSE parts[1] \o sep \o JoinWith(Tail(parts), sep)

Whitespace == {" ", "\t", "\n"}

RECURSIVE StripLeft(_)
StripLeft(s) ==
    IF s # << >> /\ Head(s) \in Whitespace THEN StripLeft(Tail(s)) ELSE s

RECURSIVE StripRight(_)
StripRight(s) ==
    IF s # << >> /\ s[Len(s)] \in Whitespace
    THEN StripRight(SubSeq(s, 1, Len(s) - 1)) ELSE s

\* str.strip()
Strip(s) == StripRight(StripLeft(s))

KeyParent == <<"p", "a", "r", "e", "n", "t">>

KeyMessage == <<"m", "e", "s", "s", "a", "g", "e">>

\* the lines the engine's summary may print
SummaryLines ==
    { <<"p", "a", "r", "e", "n", "t", ":", " ", "1", ":", "a">>,   \* parent: 1:a
      <<" ", "m">>,      \* (a space, then) m
      <<"k", ":", " ", "v">>,       \* k: v
      <<"u", ":", " ", "x", ":", " ", "y">>,      \* u: x: y
      << >> }        \* an empty line

\* what commands.summary writes to the buffer: lines joined by newlines; a
\* last line that is empty stands for the newline that ends the output
SummaryTexts == {JoinWith(ls, Newline) : ls \in SeqsUpTo(SummaryLines, MaxLines)}

\* lines 244-247: the loop over summary[2:]
RECURSIVE SummaryFields(_, _)
SummaryFields(fields, post) ==
    IF fields = << >> THEN post
    ELSE LET field == Head(fields)
             split == SplitOn(field, <<":", " ">>, << >>)
         IN  IF field # << >>
             THEN SummaryFields(Tail(fields),
                                (split[1] :> JoinWith(Tail(split), << >>)) @@ post)
             ELSE SummaryFields(Tail(fields), post)

\* lines 236-249: the dictionary made of the engine's output, or the
\* RuntimeError of _MISSING_SUMMARY_FIELDS
SummaryOutcome(text) ==
    LET summary == SplitOn(text, Newline, << >>) IN
    IF Len(summary) < 2 THEN [res |-> "CorruptRepository", post |-> << >>]
    ELSE [res |-> "ok",
          post |-> SummaryFields(
                      SubSeq(summary, 3, Len(summary)),
                      (KeyMessage :> Strip(summary[2]))
                          @@ (KeyParent :> Strip(DropFirst(summary[1], ParentLabelWidth))))]

\* SummaryOutcome of each output of the model, computed once
SummaryOutcomeOf == [text \in SummaryTexts |-> SummaryOutcome(text)]

\* lines 232-249: text is what commands.summary wrote
Summary(text) ==
    /\ handle
    /\ last' = [op |-> "summary", arg |-> text, res |-> SummaryOutcomeOf[text].res,
                named |-> None, again |-> FALSE, post |-> SummaryOutcomeOf[text].post]
    /\ UNCHANGED <<exists, hg, st, commits, parent, handle, username, uiname>>

-----------------------------------------------------------------------------
(* summary() on its own: a handle over an existing repository, and calls   *)
(* of summary() with every output the engine may print                     *)

InitSummary ==
    /\ exists = "dir"
    /\ hg = TRUE
    /\ st = [f \in Files |-> IF f = FileA THEN "clean" ELSE "absent"]
    /\ commits = <<[message |-> "whatever", user |-> "A-Lin", date |-> None,
                    parent |-> -1, files |-> {FileA}]>>
    /\ parent = 0
    /\ handle = TRUE
    /\ username = None
    /\ uiname = None
    /\ last = NoCall

NextSummary == \E text \in SummaryTexts : Summary(text)

SpecSummary == InitSummary /\ [][NextSummary]_vars

-----------------------------------------------------------------------------
(* What a pathname designates: the pathname resolved against the repository *)
(* root, with its "." and ".." components resolved                          *)

Resolved(p) == NormPath(IF IsAbs(p) THEN p ELSE PathJoin(RepoDir, p))

\* a descendant of the repository root in the directory tree
LiesUnderRoot(p) == StartsWith(Resolved(p), RepoDir \o <<"/">>)

\* the file a pathname under the root designates, named relative to the root
Designated(p) == DropFirst(Resolved(p), Len(RepoDir) + 1)

Tracked == {"added", "clean", "modified", "removed", "deleted"}

\* the untracked files of working copy s that the batch names
NamedUntracked(pathnames, s) ==
    {f \in Files : /\ s[f] = "unknown"
                   /\ \E i \in 1..Len(pathnames) :
                        LiesUnderRoot(pathnames[i]) /\ Designated(pathnames[i]) = f}

\* every pathname of the batch designates a tracked file of working copy s
AllTracked(pathnames, s) ==
    /\ pathnames # << >>
    /\ \A i \in 1..Len(pathnames) :
         /\ LiesUnderRoot(pathnames[i])
         /\ Designated(pathnames[i]) \in Files
         /\ s[Designated(pathnames[i])] \in Tracked

-----------------------------------------------------------------------------
(* Claims about add() *)

\* C1: add() fails with PathOutsideRepository, naming an offending path,
\* whenever some path of the batch, resolved, is not a descendant of the
\* repository root.
C1_OutsideIsRejected ==
    (last.op = "add" /\ \E i \in 1..Len(last.arg) : ~LiesUnderRoot(last.arg[i]))
        => /\ last.res = "PathOutsideRepository"
           /\ last.named # None
           /\ ~LiesUnderRoot(last.named[1])

\* C2: a call of add() that fails with PathOutsideRepository leaves the status
\* of every file as it was, wherever the offending path stands in the batch.
C2_FailedAddStagesNothing ==
    [][(last'.op = "add" /\ last'.res = "PathOutsideRepository") => st' = st]_vars

\* C2, the case: the call failed on the last path of a batch whose first path
\* names an untracked file of the repository.
C2_Witness ==
    /\ last.op = "add"
    /\ last.res = "PathOutsideRepository"
    /\ Len(last.arg) >= 2
    /\ last.arg[1] = FileA
    /\ st[FileA] = "unknown"
    /\ \A i \in 1..(Len(last.arg) - 1) : LiesUnderRoot(last.arg[i])
    /\ ~LiesUnderRoot(last.arg[Len(last.arg)])

\* C3: when add() returns normally, the files it staged are exactly the
\* untracked files of the repository that the batch named, and no other file
\* changes its status.
C3_StagesExactlyTheNamed ==
    [][(last'.op = "add" /\ last'.res = "ok")
          => \A f \in Files :
               st'[f] = IF f \in NamedUntracked(last'.arg, st) THEN "added" ELSE st[f]]_vars

\* C4: add() on tracked files raises nothing and changes nothing, and a second
\* call of add() with the same pathnames ends as the first did and leaves the
\* working copy as the first call left it.
C4_AddIdempotent ==
    [][last'.op = "add"
          => /\ AllTracked(last'.arg, st) => (last'.res = "ok" /\ st' = st)
             /\ last'.again => (last'.res = last.res /\ st' = st)]_vars

\* C4, the case: add() was called twice in a row on a file that was untracked,
\* and the file is staged.
C4_Witness ==
    /\ last.op = "add"
    /\ last.again
    /\ last.res = "ok"
    /\ \E i \in 1..Len(last.arg) :
         /\ LiesUnderRoot(last.arg[i])
         /\ Designated(last.arg[i]) \in Files
         /\ st[Designated(last.arg[i])] = "added"

-----------------------------------------------------------------------------
(* Claims about commit(), username, __init__ and update() *)

Changed == {"added", "deleted", "modified", "removed"}

\* a step of commit() that made a changeset
Committed == last'.op = "commit" /\ Len(commits') = Len(commits) + 1

\* C5: commit() on a working copy with no added, deleted, modified or removed
\* file fails with NothingToCommit and leaves the history and the working
\* copy's parent as they were, whatever message and date it was given.
C5_NothingToCommit ==
    [][(last'.op = "commit" /\ \A f \in Files : st[f] \notin Changed)
          => /\ last'.res = "NothingToCommit"
             /\ commits' = commits
             /\ parent' = parent]_vars

\* C5, the case: commit() was given a message and a date and failed.
C5_Witness ==
    /\ last.op = "commit"
    /\ last.res = "NothingToCommit"
    /\ last.arg.message # None
    /\ last.arg.date # None

\* C6: the author of every changeset commit() makes is the override when one
\* is set on the handle, else the engine's identity when it has one, else
\* "(unknown user)".
C6_AuthorIsOverrideWhenSet ==
    [][Committed
          => commits'[Len(commits')].user =
                IF username # None THEN username[1]
                ELSE IF uiname # None THEN uiname[1]
                ELSE DefaultUsername]_vars

\* C7: constructing with safe=True over a directory that holds files and is no
\* repository fails with UnsafeInit and leaves the directory as it was.
C7_UnsafeInit ==
    [][(/\ last'.op = "init"
        /\ last'.arg
        /\ exists = "dir"
        /\ ~hg
        /\ \E f \in Files : st[f] # "absent")
          => /\ last'.res = "UnsafeInit"
             /\ ~handle'
             /\ hg' = hg
             /\ exists' = exists
             /\ st' = st]_vars

\* C7, the case: a safe construction failed over a directory with a file in it.
C7_Witness ==
    /\ last.op = "init"
    /\ last.arg
    /\ last.res = "UnsafeInit"
    /\ exists = "dir"
    /\ st[FileA] = "unknown"
    /\ ~hg

\* C8: update() with a revision identifier that does not resolve fails with
\* UnknownRevision and leaves the working copy's parent and files as they
\* were, for every combination of clean and check.
C8_UnknownRevision ==
    [][(/\ last'.op = "update"
        /\ last'.arg.rev # None
        /\ last'.arg.rev[1] \notin 0..(Len(commits) - 1))
          => /\ last'.res = "UnknownRevision"
             /\ parent' = parent
             /\ st' = st]_vars

\* C8, the case: update() failed on an unknown revision with both flags set
\* and uncommitted changes in the working copy.
C8_Witness ==
    /\ last.op = "update"
    /\ last.res = "UnknownRevision"
    /\ last.arg.clean
    /\ last.arg.check
    /\ st[FileA] = "modified"

\* C9: constructing over a path that does not exist, or that is a file, fails
\* with InvalidRepository for either value of safe; no handle and no repository
\* metadata come of it.
C9_InvalidRepository ==
    (last.op = "init" /\ exists \in {"missing", "file"})
        => /\ last.res = "InvalidRepository"
           /\ ~handle
           /\ ~hg

\* C9, the case: a safe construction over a file failed.
C9_Witness ==
    /\ last.op = "init"
    /\ last.arg
    /\ exists = "file"
    /\ last.res = "InvalidRepository"

\* C10: commit() with a staged file and no message makes a changeset, and the
\* message of every changeset commit() makes is the placeholder when no
\* message was given and the given message otherwise.
C10_CommitMessage ==
    [][/\ (/\ last'.op = "commit"
           /\ last'.arg.message = None
           /\ \E f \in Files : st[f] = "added") => Committed
       /\ Committed
            => commits'[Len(commits')].message =
                  IF last'.arg.message = None THEN DefaultCommitMessage
                  ELSE last'.arg.message[1]]_vars

\* C10, the case: a changeset made without a message carries the placeholder.
C10_Witness ==
    /\ last.op = "commit"
    /\ last.res = "ok"
    /\ last.arg.message = None
    /\ commits # << >>
    /\ commits[Len(commits)].message = DefaultCommitMessage

\* C11: whenever an added, deleted, modified or removed file is in the working
\* copy, commit() passes the NothingToCommit check, and a call of commit()
\* that returns normally has made exactly one changeset, which carries the
\* message, the resolved author and the date and is the working copy's parent.
C11_CommitCreatesChangeset ==
    [][/\ (last'.op = "commit" /\ \E f \in Files : st[f] \in Changed)
            => last'.res # "NothingToCommit"
       /\ (last'.op = "commit" /\ last'.res = "ok")
            => /\ Committed
               /\ SubSeq(commits', 1, Len(commits)) = commits
               /\ commits'[Len(commits')].message = CommitMessage(last'.arg.message)
               /\ commits'[Len(commits')].user = GetUsername(username, uiname)
               /\ commits'[Len(commits')].date = last'.arg.date
               /\ parent' = Len(commits') - 1]_vars

-----------------------------------------------------------------------------
(* The lines of an output, as one reads it: every newline ends a line, and *)
(* text after the last newline is a line of its own                        *)

RECURSIVE CountOf(_, _)
CountOf(s, c) ==
    IF s = << >> THEN 0
    ELSE (IF Head(s) = c THEN 1 ELSE 0) + CountOf(Tail(s), c)

LineCount(text) ==
    CountOf(text, "\n") + (IF text # << >> /\ text[Len(text)] # "\n" THEN 1 ELSE 0)

RECURSIVE LinesOf(_, _)
LinesOf(text, cur) ==
    IF text = << >> THEN (IF cur = << >> THEN << >> ELSE <<cur>>)
    ELSE IF Head(text) = "\n" THEN <<cur>> \o LinesOf(Tail(text), << >>)
    ELSE LinesOf(Tail(text), Append(cur, Head(text)))

\* a line cut at its first ": ": the key before it, the value after it
RECURSIVE AtFirstSeparator(_, _)
AtFirstSeparator(line, key) ==
    IF line = << >> THEN [key |-> key, value |-> << >>]
    ELSE IF StartsWith(line, <<":", " ">>) THEN [key |-> key, value |-> DropFirst(line, 2)]
    ELSE AtFirstSeparator(Tail(line), Append(key, Head(line)))

RECURSIVE FieldsAtFirstSeparator(_, _)
FieldsAtFirstSeparator(fields, post) ==
    IF fields = << >> THEN post
    ELSE LET kv == AtFirstSeparator(Head(fields), << >>) IN
         IF Head(fields) # << >>
         THEN FieldsAtFirstSeparator(Tail(fields), (kv.key :> kv.value) @@ post)
         ELSE FieldsAtFirstSeparator(Tail(fields), post)

DocumentedSummary(text) ==
    LET lines == LinesOf(text, << >>) IN
    FieldsAtFirstSeparator(
        SubSeq(lines, 3, Len(lines)),
        (KeyMessage :> Strip(lines[2]))
            @@ (KeyParent :> DropFirst(lines[1], ParentLabelWidth)))

\* C12: summary() fails with the corrupt-repository error whenever the engine's
\* output has fewer than two lines (nothing, or one line with or without the
\* newline that ends it), and returns a dictionary only when the output has
\* both the parent line and the message line.
C12_FewerThanTwoLinesIsCorrupt ==
    last.op = "summary"
        => /\ LineCount(last.arg) < 2 => last.res = "CorruptRepository"
           /\ last.res = "ok" => LineCount(last.arg) >= 2

\* C13: for every output of two or more lines, summary() returns "parent" as
\* what follows the label of the first line, "message" as the second line
\* trimmed, and for every later non-empty line the key before its first ": "
\* with the whole text after it, further ": " included, as the value.
C13_FieldsSplitAtFirstSeparator ==
    (last.op = "summary" /\ LineCount(last.arg) >= 2)
        => /\ last.res = "ok"
           /\ last.post = DocumentedSummary(last.arg)

====
